---- MODULE Spec2Model ----
(***************************************************************************)
(* The `export` command of the sector recovery tool (src/export/export.go): *)
(* one run of ExportCmd.Action as a state machine.  The chain node's        *)
(* answers (StateMinerInfo, StateSectorGetInfo, StateSectorPreCommitInfo,   *)
(* ChainGetTipSetByHeight, StateGetRandomnessFromTickets) are inputs chosen *)
(* anew at every call.                                                      *)
(***************************************************************************)
EXTENDS Integers, Sequences, FiniteSets, TLC

VARIABLES
    pc,            \* position of the run inside Action
    errAt,         \* the call whose error Action returned ("" while none)
    sectors,       \* cctx.IntSlice("sector")
    maddr,         \* the parsed miner address
    mi,            \* mi.SectorSize
    i,             \* position of the classification loop in sectors
    sectorInfos,   \* the SectorInfos slice
    failtSectors,  \* the failtSectors slice
    tsk,           \* the tipset key carried through the randomness loop
    k,             \* position of the randomness loop in sectorInfos
    output,        \* the RecoveryParams built at line 117
    summary,       \* what line 137 prints
    classLog,      \* history: the answers each classification iteration got
    walkLog        \* history: the calls each randomness iteration made

vars == <<pc, errAt, sectors, maddr, mi, i, sectorInfos, failtSectors, tsk, k,
          output, summary, classLog, walkLog>>

----------------------------------------------------------------------------
(* Bounds of the model *)

\* longest --sector list
MaxReq == 2
\* sector numbers are 1..MaxSector
MaxSector == 2
\* activation and pre-commit epochs are 1..MaxEpoch
MaxEpoch == 2

SectorNumbers == 1..MaxSector
Epochs == 1..MaxEpoch
\* the height of the chain head, above every epoch recorded on chain
HeadEpoch == MaxEpoch + 1

\* the --sector flag is Required: the list is never empty
SectorLists == UNION {[1..len -> SectorNumbers] : len \in 1..MaxReq}

----------------------------------------------------------------------------
(* Values *)

Undef == "undef"
Miner == "f01000"
NoSize == "none"
SectorSizes == {"32GiB"}
NoOutput == [Miner |-> Undef, SectorSize |-> NoSize, SectorInfos |-> <<>>]
NoSummary == [exported |-> -1, failt |-> <<>>]

\* a nil abi.Randomness
NoTicket == <<>>

\* types.EmptyTSK: the key with no block CIDs, which the node reads as "the head"
EmptyTSK == <<>>
\* the nil *types.TipSet a failed ChainGetTipSetByHeight leaves in ts
NilTs == [height |-> -1, cids |-> <<>>]
\* the tipset of the chain at height e (its one block is named by the height)
TipSetAt(e) == [height |-> e, cids |-> <<e>>]

\* ts.Key(): the key of the tipset's CIDs; lotus answers EmptyTSK for a nil
\* receiver, so the ignored lookup error of line 105 resets the key to the head
Key(ts) == IF ts = NilTs THEN EmptyTSK ELSE ts.cids

\* the height the node resolves a key to
Height(key) == IF key = EmptyTSK THEN HeadEpoch ELSE key[1]

\* the (sealProof, sealedCID) pairs found on chain
SealA == [SealProof |-> "StackedDrg32GiBV1_1", SealedCID |-> "bagaA"]
SealB == [SealProof |-> "StackedDrg64GiBV1_1", SealedCID |-> "bagaB"]
CommittedSeal(e) == IF e % 2 = 1 THEN SealA ELSE SealB
PreCommitSeal(e) == IF e % 2 = 1 THEN SealB ELSE SealA

\* miner.SectorOnChainInfo values StateSectorGetInfo can return
SectorOnChainInfos ==
    {[SealProof |-> CommittedSeal(e).SealProof, Activation |-> e,
      SealedCID |-> CommittedSeal(e).SealedCID] : e \in Epochs}

\* miner.SectorPreCommitOnChainInfo values StateSectorPreCommitInfo can return
PreCommitOnChainInfos ==
    {[Info |-> PreCommitSeal(e), PreCommitEpoch |-> e] : e \in Epochs}

\* StateSectorGetInfo: an error, (nil, nil), or a record
GetInfoResponses ==
    {[kind |-> "err"], [kind |-> "nil"]}
        \cup {[kind |-> "info", si |-> r] : r \in SectorOnChainInfos}

\* StateSectorPreCommitInfo: an error or a record (line 79 reads the result's
\* fields with no nil test: a sector without pre-commit is reported as an error)
PreCommitResponses ==
    {[kind |-> "err"]}
        \cup {[kind |-> "info", preCommitInfo |-> r] : r \in PreCommitOnChainInfos}

\* the pre-commit query was not made
NotQueried == [kind |-> "none"]

\* ChainGetTipSetByHeight(epoch, from): an error (ts = nil), or the tipset at
\* epoch, which exists only at or below the height the search starts from
\* (every epoch is taken to have a tipset)
TipSetResponses(epoch, from) ==
    {NilTs} \cup (IF epoch <= Height(from) THEN {TipSetAt(epoch)} ELSE {})

\* StateGetRandomnessFromTickets(SealRandomness, epoch, buf, key) on success:
\* a function of its arguments (buf is the one miner's bytes)
Randomness(epoch, key) == <<"SealRandomness", epoch, key>>

----------------------------------------------------------------------------
(* Sorting: sort.Sort(sectorInfos) with SectorInfos.Less *)

Less(a, b) ==
    IF a.Activation # b.Activation
    THEN a.Activation > b.Activation
    ELSE a.SectorNumber < b.SectorNumber

\* sort.Sort leaves a permutation in which no element is Less than the one
\* before it; it is not stable, so equal elements may end in either order
IsSorted(s) == \A x \in 1..(Len(s) - 1) : ~Less(s[x + 1], s[x])

Rearrangements(s) ==
    IF s = <<>> THEN {<<>>}
    ELSE LET D == 1..Len(s)
             P == {p \in [D -> D] : \A x, y \in D : p[x] = p[y] => x = y}
         IN  {[x \in D |-> s[p[x]]] : p \in P}

SortResults(s) == {t \in Rearrangements(s) : IsSorted(t)}

----------------------------------------------------------------------------
(* The body of the classification loop, lines 62-91 *)

FromPreCommit(sector, preCommitInfo) ==
    [SectorNumber |-> sector,
     SealProof    |-> preCommitInfo.Info.SealProof,
     Activation   |-> preCommitInfo.PreCommitEpoch,
     SealedCID    |-> preCommitInfo.Info.SealedCID,
     Ticket       |-> NoTicket]

FromCommitted(sector, si) ==
    [SectorNumber |-> sector,
     SealProof    |-> si.SealProof,
     Activation   |-> si.Activation,
     SealedCID    |-> si.SealedCID,
     Ticket       |-> NoTicket]

\* faulty variant: the pre-commit branch forgets to record its failure
ClassifyStepLosesFailure(sector, si, pre) ==
    IF si.kind = "err"
    THEN [infos |-> <<>>, failt |-> <<sector>>]
    ELSE IF si.kind = "nil"
         THEN IF pre.kind = "err"
              THEN [infos |-> <<>>, failt |-> <<>>]
              ELSE [infos |-> <<FromPreCommit(sector, pre.preCommitInfo)>>,
                    failt |-> <<>>]
         ELSE [infos |-> <<FromCommitted(sector, si.si)>>, failt |-> <<>>]

\* faulty variant: the pre-commit branch leaves Activation at its zero value
ClassifyStepNoPreCommitEpoch(sector, si, pre) ==
    IF si.kind = "err"
    THEN [infos |-> <<>>, failt |-> <<sector>>]
    ELSE IF si.kind = "nil"
         THEN IF pre.kind = "err"
              THEN [infos |-> <<>>, failt |-> <<sector>>]
              ELSE [infos |-> <<[FromPreCommit(sector, pre.preCommitInfo)
                                    EXCEPT !.Activation = 0]>>,
                    failt |-> <<>>]
         ELSE [infos |-> <<FromCommitted(sector, si.si)>>, failt |-> <<>>]

\* what one iteration appends to sectorInfos and to failtSectors
ClassifyStep(sector, si, pre) ==
    IF si.kind = "err"
    THEN [infos |-> <<>>, failt |-> <<sector>>]
    ELSE IF si.kind = "nil"
         THEN IF pre.kind = "err"
              THEN [infos |-> <<>>, failt |-> <<sector>>]
              ELSE [infos |-> <<FromPreCommit(sector, pre.preCommitInfo)>>,
                    failt |-> <<>>]
         ELSE [infos |-> <<FromCommitted(sector, si.si)>>, failt |-> <<>>]

----------------------------------------------------------------------------
(* The body of the randomness loop, lines 105-114 *)

\* faulty variant: the key advances only when the randomness call succeeds
ResolveStepNoAdvanceOnFailure(sectorInfo, from, ts, randOk) ==
    LET key == Key(ts) IN
    [from   |-> from,
     key    |-> key,
     tsk    |-> IF randOk THEN key ELSE from,
     ticket |-> IF randOk THEN Randomness(sectorInfo.Activation, key)
                ELSE sectorInfo.Ticket,
     failt  |-> IF randOk THEN <<>> ELSE <<sectorInfo.SectorNumber>>]

\* faulty variant: the `continue` of line 112 is missing, the ticket is attached anyway
ResolveStepNoContinue(sectorInfo, from, ts, randOk) ==
    LET key == Key(ts) IN
    [from   |-> from,
     key    |-> key,
     tsk    |-> key,
     ticket |-> Randomness(sectorInfo.Activation, key),
     failt  |-> IF randOk THEN <<>> ELSE <<sectorInfo.SectorNumber>>]

\* one iteration: the key the lookup searches from, the key handed to the
\* randomness call, the key carried on, the entry's ticket afterwards and what
\* is appended to failtSectors.  The lookup's err is overwritten unread.
ResolveStep(sectorInfo, from, ts, randOk) ==
    LET key == Key(ts) IN
    [from   |-> from,
     key    |-> key,
     tsk    |-> key,
     ticket |-> IF randOk THEN Randomness(sectorInfo.Activation, key)
                ELSE sectorInfo.Ticket,
     failt  |-> IF randOk THEN <<>> ELSE <<sectorInfo.SectorNumber>>]

----------------------------------------------------------------------------
(* The output record, lines 117-121 *)

WithTicket(infos) == SelectSeq(infos, LAMBDA e : e.Ticket # NoTicket)

\* faulty variant: entries without a ticket are left out of the record
RecoveryParamsTicketedOnly(miner, size, infos) ==
    [Miner |-> miner, SectorSize |-> size, SectorInfos |-> WithTicket(infos)]

RecoveryParams(miner, size, infos) ==
    [Miner |-> miner, SectorSize |-> size, SectorInfos |-> infos]

----------------------------------------------------------------------------
(* The run *)

Init ==
    /\ pc = "NewFromString"
    /\ errAt = ""
    /\ sectors \in SectorLists
    /\ maddr = Undef
    /\ mi = NoSize
    /\ i = 1
    /\ sectorInfos = <<>>
    /\ failtSectors = <<>>
    /\ tsk = EmptyTSK
    /\ k = 1
    /\ output = NoOutput
    /\ summary = NoSummary
    /\ classLog = <<>>
    /\ walkLog = <<>>

\* lines 42-45
NewFromString ==
    /\ pc = "NewFromString"
    /\ \E ok \in BOOLEAN :
         /\ pc' = IF ok THEN "GetFullNodeAPI" ELSE "error"
         /\ errAt' = IF ok THEN errAt ELSE "NewFromString"
         /\ maddr' = IF ok THEN Miner ELSE maddr
    /\ UNCHANGED <<sectors, mi, i, sectorInfos, failtSectors, tsk, k, output,
                   summary, classLog, walkLog>>

\* lines 47-51
GetFullNodeAPI ==
    /\ pc = "GetFullNodeAPI"
    /\ \E ok \in BOOLEAN :
         /\ pc' = IF ok THEN "StateMinerInfo" ELSE "error"
         /\ errAt' = IF ok THEN errAt ELSE "GetFullNodeAPI"
    /\ UNCHANGED <<sectors, maddr, mi, i, sectorInfos, failtSectors, tsk, k,
                   output, summary, classLog, walkLog>>

\* lines 54-60; the --sector list is not empty, so the loop is entered
StateMinerInfo ==
    /\ pc = "StateMinerInfo"
    /\ \E r \in {NoSize} \cup SectorSizes :
         /\ pc' = IF r = NoSize THEN "error" ELSE "classify"
         /\ errAt' = IF r = NoSize THEN "StateMinerInfo" ELSE errAt
         /\ mi' = r
    /\ UNCHANGED <<sectors, maddr, i, sectorInfos, failtSectors, tsk, k,
                   output, summary, classLog, walkLog>>

\* lines 61-92, one iteration
ClassifySector ==
    /\ pc = "classify"
    /\ \E si \in GetInfoResponses :
         \E pre \in (IF si.kind = "nil" THEN PreCommitResponses ELSE {NotQueried}) :
            LET step == ClassifyStep(sectors[i], si, pre) IN
            /\ sectorInfos' = sectorInfos \o step.infos
            /\ failtSectors' = failtSectors \o step.failt
            /\ classLog' = Append(classLog,
                                  [sector |-> sectors[i], si |-> si, pre |-> pre])
    /\ i' = i + 1
    /\ pc' = IF i = Len(sectors) THEN "sort" ELSE "classify"
    /\ UNCHANGED <<errAt, sectors, maddr, mi, tsk, k, output, summary, walkLog>>

\* line 96
SortSectors ==
    /\ pc = "sort"
    /\ sectorInfos' \in SortResults(sectorInfos)
    /\ pc' = "MarshalCBOR"
    /\ UNCHANGED <<errAt, sectors, maddr, mi, i, failtSectors, tsk, k, output,
                   summary, classLog, walkLog>>

\* lines 98-104: the address bytes, tsk := EmptyTSK, and the loop's entry
MarshalCBOR ==
    /\ pc = "MarshalCBOR"
    /\ \E ok \in BOOLEAN :
         /\ pc' = IF ~ok THEN "error"
                  ELSE IF sectorInfos = <<>> THEN "output" ELSE "resolve"
         /\ errAt' = IF ok THEN errAt ELSE "MarshalCBOR"
    /\ tsk' = EmptyTSK
    /\ k' = 1
    /\ UNCHANGED <<sectors, maddr, mi, i, sectorInfos, failtSectors, output,
                   summary, classLog, walkLog>>

\* lines 104-115, one iteration
ResolveSector ==
    /\ pc = "resolve"
    /\ \E ts \in TipSetResponses(sectorInfos[k].Activation, tsk) :
         \E randOk \in BOOLEAN :
            LET step == ResolveStep(sectorInfos[k], tsk, ts, randOk) IN
            /\ tsk' = step.tsk
            /\ sectorInfos' = [sectorInfos EXCEPT ![k].Ticket = step.ticket]
            /\ failtSectors' = failtSectors \o step.failt
            /\ walkLog' = Append(walkLog,
                                 [sector |-> sectorInfos[k].SectorNumber,
                                  epoch  |-> sectorInfos[k].Activation,
                                  from   |-> step.from,
                                  ts     |-> ts,
                                  key    |-> step.key,
                                  rand   |-> IF randOk THEN "ok" ELSE "err"])
    /\ k' = k + 1
    /\ pc' = IF k = Len(sectorInfos) THEN "output" ELSE "resolve"
    /\ UNCHANGED <<errAt, sectors, maddr, mi, i, output, summary, classLog>>

\* lines 117-139: build the record, then encode it, name the file and write it
\* (json.MarshalIndent, homedir.Expand, ioutil.WriteFile: the error of any of
\* the three is returned, "WriteOutput" stands for all three), then print
WriteOutput ==
    /\ pc = "output"
    /\ output' = RecoveryParams(maddr, mi, sectorInfos)
    /\ \E ok \in BOOLEAN :
         /\ pc' = IF ok THEN "done" ELSE "error"
         /\ errAt' = IF ok THEN errAt ELSE "WriteOutput"
         /\ summary' = IF ok
                       THEN [exported |-> Len(sectorInfos), failt |-> failtSectors]
                       ELSE summary
    /\ UNCHANGED <<sectors, maddr, mi, i, sectorInfos, failtSectors, tsk, k,
                   classLog, walkLog>>

Next ==
    \/ NewFromString
    \/ GetFullNodeAPI
    \/ StateMinerInfo
    \/ ClassifySector
    \/ SortSectors
    \/ MarshalCBOR
    \/ ResolveSector
    \/ WriteOutput

Spec == Init /\ [][Next]_vars

----------------------------------------------------------------------------
(* Vocabulary of the properties *)

FailureSet == {failtSectors[x] : x \in DOMAIN failtSectors}
ListedNumbers == {sectorInfos[x].SectorNumber : x \in DOMAIN sectorInfos}
Requested == {sectors[x] : x \in DOMAIN sectors}

\* a logged classification iteration got metadata from one of the two queries
Classified(e) ==
    \/ e.si.kind = "info"
    \/ e.si.kind = "nil" /\ e.pre.kind = "info"

ClassifiedNumbers == {classLog[x].sector : x \in {y \in DOMAIN classLog : Classified(classLog[y])}}
ClassificationFailures == {x \in DOMAIN classLog : ~Classified(classLog[x])}

\* the classification loop has ended
ClassificationOver == pc \in {"sort", "MarshalCBOR", "resolve", "output", "done"}

\* a SectorInfo without its ticket
Untick(info) == [info EXCEPT !.Ticket = NoTicket]

\* the entry a classified iteration is to yield
Expected(e) ==
    IF e.si.kind = "info"
    THEN [SectorNumber |-> e.sector, SealProof |-> e.si.si.SealProof,
          Activation |-> e.si.si.Activation, SealedCID |-> e.si.si.SealedCID,
          Ticket |-> NoTicket]
    ELSE [SectorNumber |-> e.sector,
          SealProof |-> e.pre.preCommitInfo.Info.SealProof,
          Activation |-> e.pre.preCommitInfo.PreCommitEpoch,
          SealedCID |-> e.pre.preCommitInfo.Info.SealedCID,
          Ticket |-> NoTicket]

\* how many entries of the list are v, ticket aside
Listed(v) == Cardinality({x \in DOMAIN sectorInfos : Untick(sectorInfos[x]) = v})
\* how many classified iterations are to yield v
Yielded(v) ==
    Cardinality({x \in DOMAIN classLog :
                    Classified(classLog[x]) /\ Expected(classLog[x]) = v})

----------------------------------------------------------------------------
(* C1: after the classification loop the list holds exactly the sectors    *)
(* that were classified, and each sector number occurs in it exactly once, *)
(* also when the requested list repeats a number.                          *)
C1_EachSectorOnce ==
    ClassificationOver =>
        /\ ListedNumbers = ClassifiedNumbers
        /\ \A s \in ListedNumbers :
              Cardinality({x \in DOMAIN sectorInfos :
                              sectorInfos[x].SectorNumber = s}) = 1

(* C2: in the output record every adjacent pair (a, b) of the sector list  *)
(* has a.activationEpoch > b.activationEpoch, or equal epochs and          *)
(* a.sectorNumber < b.sectorNumber, strictly.                              *)
C2_StrictlyOrdered ==
    pc = "done" =>
        \A x \in 1..(Len(output.SectorInfos) - 1) :
            LET a == output.SectorInfos[x]
                b == output.SectorInfos[x + 1]
            IN  \/ a.Activation > b.Activation
                \/ a.Activation = b.Activation /\ a.SectorNumber < b.SectorNumber

(* C3: a sector whose tipset lookup failed is in FailureSet and ends the   *)
(* run with no ticket.                                                     *)
C3_LookupFailureRecorded ==
    pc = "done" =>
        \A x \in DOMAIN walkLog :
            walkLog[x].ts = NilTs =>
                /\ walkLog[x].sector \in FailureSet
                /\ sectorInfos[x].Ticket = NoTicket

(* C4: an entry whose randomness derivation failed has no ticket and its   *)
(* number is in FailureSet; every entry's ticket is decided by its own     *)
(* epoch, lookup and derivation alone, whatever happened to the others;    *)
(* entries not yet reached have none, and the loop reaches every entry.    *)
C4_RandomnessFailureIsolated ==
    /\ Len(walkLog) <= Len(sectorInfos)
    /\ \A x \in DOMAIN sectorInfos :
          IF x \in DOMAIN walkLog
          THEN /\ walkLog[x].sector = sectorInfos[x].SectorNumber
               /\ walkLog[x].rand = "err" =>
                     /\ sectorInfos[x].Ticket = NoTicket
                     /\ sectorInfos[x].SectorNumber \in FailureSet
               /\ walkLog[x].rand = "ok" =>
                     sectorInfos[x].Ticket =
                         Randomness(sectorInfos[x].Activation, Key(walkLog[x].ts))
          ELSE sectorInfos[x].Ticket = NoTicket
    /\ pc \in {"output", "done"} => Len(walkLog) = Len(sectorInfos)

C4_Witness ==
    /\ pc = "done"
    /\ Len(walkLog) = 2
    /\ walkLog[1].rand = "err"
    /\ sectorInfos[1].Ticket = NoTicket
    /\ walkLog[2].rand = "ok"
    /\ sectorInfos[2].Ticket # NoTicket

(* C5: of two successive tipset lookups of a run, the key held after the   *)
(* later one is at an epoch no higher than the key held after the earlier. *)
C5_WalkNeverMovesUp ==
    \A x \in 1..(Len(walkLog) - 1) :
        Height(Key(walkLog[x + 1].ts)) <= Height(Key(walkLog[x].ts))

(* C6: a sector for which no query yielded metadata is in FailureSet and   *)
(* not in the list, and the loop goes on: once begun, classification stops *)
(* only when every requested sector has been through it.                   *)
C6_UnclassifiedSectorFails ==
    /\ \A x \in DOMAIN classLog :
          ~Classified(classLog[x]) => classLog[x].sector \in FailureSet
    /\ \A s \in SectorNumbers :
          (\A x \in DOMAIN classLog :
              classLog[x].sector = s => ~Classified(classLog[x]))
              => s \notin ListedNumbers
    /\ pc # "classify" => (classLog = <<>> \/ Len(classLog) = Len(sectors))
    /\ pc = "classify" => Len(classLog) = i - 1

C6_Witness ==
    /\ pc = "done"
    /\ Len(classLog) = 2
    /\ classLog[1].si.kind = "nil"
    /\ classLog[1].pre.kind = "err"
    /\ Classified(classLog[2])
    /\ classLog[1].sector \in FailureSet
    /\ classLog[1].sector \notin ListedNumbers
    /\ classLog[2].sector \in ListedNumbers

(* C7: every iteration whose committed query found nothing and whose       *)
(* pre-commit query found a record yields exactly one entry, with the      *)
(* pre-commit epoch as activation and the pre-commit seal proof and sealed *)
(* CID; every iteration whose committed query found a record yields one    *)
(* entry from that record, and makes no pre-commit query.  (During and     *)
(* after classification, and in the final record, the list holds each      *)
(* expected entry as often as iterations yielded it, and nothing else.)    *)
C7_EntryFromTheRightRecord ==
    /\ \A x \in DOMAIN classLog :
          classLog[x].si.kind = "info" => classLog[x].pre = NotQueried
    /\ Len(sectorInfos) = Len(classLog) - Cardinality(ClassificationFailures)
    /\ pc \in {"classify", "sort", "MarshalCBOR", "done"} =>
          \A v \in {Expected(classLog[x]) :
                        x \in {y \in DOMAIN classLog : Classified(classLog[y])}} :
              Listed(v) = Yielded(v)

C7_Witness ==
    /\ pc = "done"
    /\ Len(classLog) = 2
    /\ classLog[1].si.kind = "nil"
    /\ classLog[1].pre.kind = "info"
    /\ classLog[2].si.kind = "info"
    /\ Len(sectorInfos) = 2
    /\ \E x \in DOMAIN sectorInfos :
          /\ sectorInfos[x].SectorNumber = classLog[1].sector
          /\ sectorInfos[x].Activation = classLog[1].pre.preCommitInfo.PreCommitEpoch
          /\ sectorInfos[x].SealedCID = classLog[1].pre.preCommitInfo.Info.SealedCID

(* C8 as stated: a run returns an error only when identity resolution, the *)
(* connection or the size query failed.                                    *)
C8_OnlyIdentityOrSizeAbort ==
    pc = "error" => errAt \in {"NewFromString", "GetFullNodeAPI", "StateMinerInfo"}

(* C8 as amended: no per-sector outcome aborts the run.  A run that fails  *)
(* before classification made no per-sector query; the only other errors   *)
(* are the address serialisation after the classification loop and the     *)
(* encoding, naming and writing of the record after both loops; a run that *)
(* ends well built the record of provider, sector size and the whole       *)
(* ordered list, whatever the per-sector outcomes; and no run is stuck     *)
(* before its end.                                                         *)
C8_PerSectorFailuresNeverAbort ==
    /\ pc = "error" =>
          \/ /\ errAt \in {"NewFromString", "GetFullNodeAPI", "StateMinerInfo"}
             /\ classLog = <<>> /\ walkLog = <<>> /\ output = NoOutput
          \/ /\ errAt = "MarshalCBOR"
             /\ Len(classLog) = Len(sectors) /\ walkLog = <<>> /\ output = NoOutput
          \/ /\ errAt = "WriteOutput"
             /\ Len(classLog) = Len(sectors) /\ Len(walkLog) = Len(sectorInfos)
             /\ output = [Miner |-> Miner, SectorSize |-> mi,
                          SectorInfos |-> sectorInfos]
    /\ pc = "done" =>
          /\ errAt = ""
          /\ Len(classLog) = Len(sectors) /\ Len(walkLog) = Len(sectorInfos)
          /\ mi \in SectorSizes
          /\ output = [Miner |-> Miner, SectorSize |-> mi, SectorInfos |-> sectorInfos]
          /\ Len(output.SectorInfos) = Len(sectors) - Cardinality(ClassificationFailures)
    /\ pc \notin {"done", "error"} => ENABLED Next

C8_Witness ==
    /\ pc = "done"
    /\ Len(output.SectorInfos) = 2
    /\ \A x \in DOMAIN output.SectorInfos : output.SectorInfos[x].Ticket = NoTicket
    /\ \A x \in DOMAIN walkLog : walkLog[x].ts = NilTs /\ walkLog[x].rand = "err"

(* C9: the first lookup searches from the empty key (the head); every      *)
(* later one searches from the key of what the lookup before it returned;  *)
(* that key is the one given to the same sector's randomness call, and it  *)
(* is the key carried on, whether or not that call failed.                 *)
C9_KeyCarriedForward ==
    /\ \A x \in DOMAIN walkLog :
          /\ walkLog[x].from = IF x = 1 THEN EmptyTSK ELSE Key(walkLog[x - 1].ts)
          /\ walkLog[x].key = Key(walkLog[x].ts)
    /\ pc = "resolve" =>
          tsk = IF walkLog = <<>> THEN EmptyTSK ELSE Key(walkLog[Len(walkLog)].ts)

C9_Witness ==
    /\ Len(walkLog) = 2
    /\ walkLog[1].ts # NilTs
    /\ walkLog[1].rand = "err"
    /\ walkLog[2].from = Key(walkLog[1].ts)
    /\ walkLog[2].from # EmptyTSK

(* C10: at the end of a run each requested number is in the list or in the *)
(* failure list, list entries plus classification failures make up the     *)
(* requests, the printed count is the list length, and a number is in both *)
(* lists only if it was classified and its randomness step failed.         *)
C10_NothingDropped ==
    pc = "done" =>
        /\ Requested \subseteq (ListedNumbers \cup FailureSet)
        /\ Len(sectorInfos) + Cardinality(ClassificationFailures) = Len(sectors)
        /\ summary.exported = Len(sectorInfos)
        /\ \A s \in ListedNumbers \cap FailureSet :
              /\ s \in ClassifiedNumbers
              /\ \E x \in DOMAIN walkLog :
                    walkLog[x].sector = s /\ walkLog[x].rand = "err"

====
